---- MODULE Spec2Model ----
(***************************************************************************)
(* Hashlife-MNCA: the block-tiled grid (src/src/sim.rs, Dense), the Life   *)
(* kernel and the block-order derivation (src/src/kernels.rs) and the      *)
(* memoizing kernel wrapper (src/src/kernels.rs, KernelCache).             *)
(*                                                                         *)
(* Five specifications share the variables:                                *)
(*   Spec       Dense::new / data_mut / set_pixel / get_pixel / step       *)
(*   SpecCache  sequences of KernelCache::exec calls                       *)
(*   SpecOrder  calculate_block_order_from_kernel_width, LayeredKernel::new*)
(*   SpecKernel single Kernel::exec calls on Life and on layered kernels   *)
(*   SpecPar    Dense::step over a KernelCache, its destinations visited   *)
(*              in any order                                               *)
(***************************************************************************)
EXTENDS Integers, Sequences, FiniteSets, TLC

VARIABLES
    dims,          \* <<W, H>>: the width and height handed to Dense::new
    front,         \* Dense.front : Array2D<Block>
    back,          \* Dense.back  : Array2D<Block>
    zero_borders,  \* Dense.zero_borders
    nsteps,        \* completed step() calls
    nsets,         \* completed seeding writes (data_mut / set_pixel)
    gen,           \* reference automaton: live cells of generation nsteps
    seed,          \* the live cells of generation 0, as seeded
    late,          \* set_pixel was called after a step
    panicked,      \* the process died of a panic
    overflow_checks, \* the build traps arithmetic overflow (debug profile)
    call,          \* the last call of the block-order derivation and its outcome
    cache,         \* KernelCache.cache : block content -> identity
    solutions,     \* KernelCache.solutions : LRU, most recently used first
    values,        \* KernelCache.values : identity -> block content
    hits,          \* KernelCache.hits
    next_idx,      \* KernelCache.next_idx
    ncalls,        \* completed KernelCache::exec calls
    last,          \* the last KernelCache::exec call: its input and what it did
    kexec,         \* the last Kernel::exec call on a bare kernel and its outcome
    decided,       \* the last call of the Larger-than-Life decider and its outcome
    stepping,      \* a step() is under way, its destinations visited one by one
    todo           \* the destinations the step under way has not visited yet

dense_vars == <<dims, front, back, zero_borders, nsteps, nsets, gen, seed, late, panicked>>

order_vars == <<overflow_checks, call>>

cache_vars == <<cache, solutions, values, hits, next_idx, ncalls, last>>

kernel_vars == <<kexec, decided>>

par_vars == <<stepping, todo>>

vars == <<dense_vars, order_vars, cache_vars, kernel_vars, par_vars>>

(***************************************************************************)
(* Bounds of the model.                                                    *)
(***************************************************************************)
MaxSets  == 2
MaxSteps == 2
MaxCalls == 5

\* The (W, H) pairs Dense::new is called with; <<3, 3>> is the 6 x 6 cell grid
\* of the scenarios.
GridDims == {<<1, 1>>, <<2, 1>>, <<1, 2>>, <<2, 2>>, <<3, 3>>}

\* The blinker of the scenarios, on the 6 x 6 grid.
Blinker == {<<1, 2>>, <<2, 2>>, <<3, 2>>}

(***************************************************************************)
(* Array2D<T> (crate::array2d): a width and a flat row-major vector.       *)
(***************************************************************************)
FromArray(width, data) == [width |-> width, data |-> data]

ArrWidth(arr) == arr.width

ArrHeight(arr) == Len(arr.data) \div arr.width

\* (x, y) is a legal index; anything else is a panic.
ArrInRange(arr, x, y) ==
    /\ x >= 0 /\ x < ArrWidth(arr)
    /\ y >= 0 /\ y < ArrHeight(arr)

ArrOffset(arr, x, y) == x + arr.width * y

ArrGet(arr, x, y) == arr.data[ArrOffset(arr, x, y) + 1]

ArrSet(arr, x, y, v) == [arr EXCEPT !.data[ArrOffset(arr, x, y) + 1] = v]

(***************************************************************************)
(* Blocks and the Life kernel.                                             *)
(***************************************************************************)
\* Life::order
LifeOrder == 1

\* Block::width: 1 << ker.order()
BlockWidth == 2 ^ LifeOrder

\* Block::zero: width^2 cells, all false
ZeroBlock == [k \in 1..(BlockWidth * BlockWidth) |-> FALSE]

\* Block::zeros_like
zeros_like(other) == [k \in 1..Len(other) |-> FALSE]

\* Block::index: x and y wrap around the block width
BlockIndex(x, y) == (x % BlockWidth) + BlockWidth * (y % BlockWidth)

\* a first loop that takes blocks[j + 2 * i]: NE and SW swapped
LifeBufSwapped(blocks, px, py) ==
    IF blocks[(py \div 2) + 2 * (px \div 2) + 1][(px % 2) + 2 * (py % 2) + 1]
    THEN 1 ELSE 0

\* Life::exec, first loop: cell (px, py) of the 4 x 4 buffer, as a u8;
\* blocks[i + 2 * j] lands at (i * 2, j * 2), block[(x, y)] is row-major.
LifeBuf(blocks, px, py) ==
    IF blocks[(px \div 2) + 2 * (py \div 2) + 1][(px % 2) + 2 * (py % 2) + 1]
    THEN 1 ELSE 0

\* Life::exec, second loop: the output cell for (ox, oy); the 3 x 3 window
\* at (ox, oy), its middle being the center and the rest the neighbors
LifeCell(blocks, ox, oy) ==
    LET neighbors ==
            LifeBuf(blocks, ox, oy) + LifeBuf(blocks, ox, 1 + oy)
          + LifeBuf(blocks, ox, 2 + oy) + LifeBuf(blocks, 1 + ox, oy)
          + LifeBuf(blocks, 1 + ox, 2 + oy) + LifeBuf(blocks, 2 + ox, oy)
          + LifeBuf(blocks, 2 + ox, 1 + oy) + LifeBuf(blocks, 2 + ox, 2 + oy)
        center == LifeBuf(blocks, 1 + ox, 1 + oy)
    IN  IF center = 1 THEN neighbors \in {2, 3} ELSE neighbors = 3

\* Life::exec: out_data is filled in the order (0,0), (1,0), (0,1), (1,1)
LifeExec(blocks) ==
    <<LifeCell(blocks, 0, 0), LifeCell(blocks, 1, 0),
      LifeCell(blocks, 0, 1), LifeCell(blocks, 1, 1)>>

\* Kernel::approximate / Kernel::exec of the kernel the grid owns
KernelExec(blocks) == LifeExec(blocks)

(***************************************************************************)
(* Dense                                                                   *)
(***************************************************************************)
\* Dense::new: (width + 1) * (height + 1) zero blocks, handed to from_array
\* together with `width`.
DenseNewArray(width, height) ==
    FromArray(width, [k \in 1..((width + 1) * (height + 1)) |-> ZeroBlock])

\* get_block_zero_borders
get_block_zero_borders(arr, x, y) ==
    IF x < 0 \/ y < 0 \/ x >= ArrWidth(arr) \/ y >= ArrHeight(arr)
    THEN zeros_like(arr.data[1])
    ELSE ArrGet(arr, x, y)

\* Dense::step, in_blocks: the four input blocks of destination (i, j)
in_blocks(f, zb, i, j) ==
    LET x == IF zb THEN i - 1 ELSE i
        y == IF zb THEN j - 1 ELSE j
    IN  <<get_block_zero_borders(f, x, y),
          get_block_zero_borders(f, x + 1, y),
          get_block_zero_borders(f, x, y + 1),
          get_block_zero_borders(f, x + 1, y + 1)>>

\* Dense::step, the body of the loops for destination (i, j)
StepBlock(f, zb, i, j) == KernelExec(in_blocks(f, zb, i, j))

\* Dense::step, the range of the loop over i: 0..(front.width() - 1)
StepRangeI(f) == 0..(ArrWidth(f) - 2)

\* Dense::step, the range of the loop over j: 0..(front.height() - 1)
StepRangeJ(f) == 0..(ArrHeight(f) - 2)

\* Dense::step, the back buffer once both loops are over
StepBack(f, b, zb) ==
    [b EXCEPT !.data = [k \in 1..Len(b.data) |->
        LET i == (k - 1) % b.width
            j == (k - 1) \div b.width
        IN  IF i \in StepRangeI(f) /\ j \in StepRangeJ(f)
            THEN StepBlock(f, zb, i, j)
            ELSE b.data[k]]]

\* Dense::pixel_dims
pixel_dims(f) == <<ArrWidth(f) * BlockWidth, ArrHeight(f) * BlockWidth>>

\* Dense::index_block_pixel
index_block_pixel(zb, px, py) ==
    IF ~zb THEN <<px + BlockWidth \div 2, py + BlockWidth \div 2>>
           ELSE <<px, py>>

\* Dense::get_pixel / Dense::set_pixel: self.front[block_idx] panics when the
\* block index is out of range
PixelPanics(f, zb, px, py) ==
    LET bi == index_block_pixel(zb, px, py)
    IN  ~ArrInRange(f, bi[1], bi[2])

\* Dense::get_pixel, when it returns
get_pixel(f, zb, px, py) ==
    LET bi == index_block_pixel(zb, px, py)
    IN  ArrGet(f, bi[1], bi[2])[BlockIndex(px, py) + 1]

\* Dense::set_pixel on an in-range block index
SetPixelFront(f, zb, px, py, val) ==
    LET bi == index_block_pixel(zb, px, py)
    IN  ArrSet(f, bi[1], bi[2],
               [ArrGet(f, bi[1], bi[2]) EXCEPT ![BlockIndex(px, py) + 1] = val])

(***************************************************************************)
(* The reference automaton: the Life rule applied directly to the          *)
(* W*w x H*w field, every cell outside the field held false.               *)
(***************************************************************************)
Viewport(d) == (0..(d[1] * BlockWidth - 1)) \X (0..(d[2] * BlockWidth - 1))

Abs(n) == IF n < 0 THEN -n ELSE n

RefNeighbors(live, p) ==
    Cardinality({q \in live : /\ q # p
                              /\ Abs(q[1] - p[1]) <= 1
                              /\ Abs(q[2] - p[2]) <= 1})

RefNext(d, live) ==
    {p \in Viewport(d) : IF p \in live THEN RefNeighbors(live, p) \in {2, 3}
                                       ELSE RefNeighbors(live, p) = 3}

\* The patterns a grid is seeded with: every pattern of 1..MaxSets live cells
\* on the small grids, the scenario pattern on the 6 x 6 grid.
SeedPatterns(d) ==
    IF d = <<3, 3>>
    THEN {Blinker}
    ELSE {live \in SUBSET Viewport(d) : Cardinality(live) \in 1..MaxSets}

(***************************************************************************)
(* KernelCache                                                             *)
(***************************************************************************)
\* KernelCache::new: the capacity of the solutions LRU (8888 in the source),
\* scaled down to a bound
LruCapacity == 2

\* KernelCache::exec: max_cache (10_000 in the source), scaled down to a bound
max_cache == 3

\* KernelCache::exec: max_values (10_000 in the source), scaled down to a bound
max_values == 3

EmptyMap == [k \in {} |-> 0]

\* HashMap::insert
MapInsert(map, key, val) == (key :> val) @@ map

\* a retain that drops nothing
MapRetainAll(map, keep) == map

\* HashMap::retain on the keys in `keep`
MapRetain(map, keep) == [k \in keep |-> map[k]]

\* summarize(arr, step): a clone of the block, whatever the step
summarize(arr, step) == arr

\* self.next_idx += 1
NextIdxStuck(next) == next

NextIdx(next) == next + 1

\* interning that takes the size of the value map as the new identity
InternByLen(st, block) ==
    IF summarize(block, 1) \in DOMAIN st.cache
    THEN [st EXCEPT !.idx = st.cache[summarize(block, 1)]]
    ELSE [cache    |-> MapInsert(st.cache, summarize(block, 1), Cardinality(DOMAIN st.values)),
          values   |-> MapInsert(st.values, Cardinality(DOMAIN st.values), block),
          next_idx |-> NextIdx(st.next_idx),
          idx      |-> Cardinality(DOMAIN st.values)]

\* cache.entry(summarize(&block)).or_insert_with(..): the tables after the
\* lookup, and in idx the identity of the block
Intern(st, block) ==
    IF summarize(block, 1) \in DOMAIN st.cache
    THEN [st EXCEPT !.idx = st.cache[summarize(block, 1)]]
    ELSE [cache    |-> MapInsert(st.cache, summarize(block, 1), st.next_idx),
          values   |-> MapInsert(st.values, st.next_idx, block),
          next_idx |-> NextIdx(st.next_idx),
          idx      |-> st.next_idx]

\* a lookup that compares the first identity of the key only
LruFindFirstId(solns, key) ==
    IF \E i \in 1..Len(solns) : solns[i].key[1] = key[1]
    THEN CHOOSE i \in 1..Len(solns) : solns[i].key[1] = key[1]
    ELSE 0

\* LruCache: the position of `key`, 0 when absent
LruFind(solns, key) ==
    IF \E i \in 1..Len(solns) : solns[i].key = key
    THEN CHOOSE i \in 1..Len(solns) : solns[i].key = key
    ELSE 0

\* a get that leaves the order alone
LruNoPromote(solns, i) == solns

\* LruCache::get on a present key: the entry moves to the front
LruPromote(solns, i) ==
    <<solns[i]>> \o SubSeq(solns, 1, i - 1) \o SubSeq(solns, i + 1, Len(solns))

\* LruCache::get_or_insert on an absent key: the least recently used entry
\* goes when the cache is full
LruPut(solns, key, val) ==
    <<[key |-> key, val |-> val]>> \o
        (IF Len(solns) >= LruCapacity THEN SubSeq(solns, 1, LruCapacity - 1) ELSE solns)

\* in_cache without the value ids
in_cache_keys_only(solns) ==
    UNION {{solns[i].key[1], solns[i].key[2], solns[i].key[3], solns[i].key[4]}
            : i \in 1..Len(solns)}

\* KernelCache::exec, in_cache: the four key ids and the value id of every
\* entry of the solutions LRU
in_cache(solns) ==
    UNION {{solns[i].key[1], solns[i].key[2], solns[i].key[3], solns[i].key[4],
            solns[i].val} : i \in 1..Len(solns)}

\* self.wrap.exec
WrapExec(blocks) == LifeExec(blocks)

\* a garbage collection on every hit, whatever the sizes
TablesExceedAlways(c, v) == TRUE

\* KernelCache::exec: self.cache.len() > max_cache || self.values.len() > max_values
TablesExceed(c, v) ==
    \/ Cardinality(DOMAIN c) > max_cache
    \/ Cardinality(DOMAIN v) > max_values

\* KernelCache::exec(blocks): the tables after the call, the block returned
\* and what happened on the way
CacheExec(blocks) ==
    LET s0 == [cache |-> cache, values |-> values, next_idx |-> next_idx, idx |-> 0]
        s1 == Intern(s0, blocks[1])
        s2 == Intern(s1, blocks[2])
        s3 == Intern(s2, blocks[3])
        s4 == Intern(s3, blocks[4])
        hashes == <<s1.idx, s2.idx, s3.idx, s4.idx>>
        pos == LruFind(solutions, hashes)
        hit == pos > 0
        promoted == IF hit THEN LruPromote(solutions, pos) ELSE solutions
        gc == hit /\ TablesExceed(s4.cache, s4.values)
        keep == in_cache(promoted)
        s5 == IF gc
              THEN [s4 EXCEPT
                      !.cache = MapRetain(s4.cache,
                                   {b \in DOMAIN s4.cache : s4.cache[b] \in keep}),
                      !.values = MapRetain(s4.values, DOMAIN s4.values \cap keep)]
              ELSE s4
        s6 == IF hit
              THEN [s5 EXCEPT !.idx = promoted[1].val]
              ELSE Intern(s5, WrapExec(blocks))
        solns == IF hit THEN promoted ELSE LruPut(promoted, hashes, s6.idx)
        found == s6.idx \in DOMAIN s6.values
    IN  [cache |-> s6.cache, values |-> s6.values, next_idx |-> s6.next_idx,
         solutions |-> solns,
         hits |-> IF hit THEN hits + 1 ELSE hits,
         hit |-> hit, gc |-> gc, pos |-> pos,
         wrap_calls |-> IF hit THEN 0 ELSE 1,
         sizes |-> <<Cardinality(DOMAIN s4.cache), Cardinality(DOMAIN s4.values)>>,
         collected |-> (DOMAIN s4.values) \ (DOMAIN s5.values),
         evicted |-> (~hit /\ Len(solutions) >= LruCapacity),
         hashes |-> hashes, soln_idx |-> s6.idx,
         panic |-> ~found,
         block |-> IF found THEN s6.values[s6.idx] ELSE <<>>]

(***************************************************************************)
(* calculate_block_order_from_kernel_width and LayeredKernel::new          *)
(***************************************************************************)
\* usize::BITS (a 16-bit target; the loop has the same shape at 32 and 64)
UsizeBits == 16

UsizeMax == 2 ^ UsizeBits - 1

Panicked == [status |-> "panic", order |-> 0]

Returned(order) == [status |-> "returned", order |-> order]

\* calculate_block_order_from_kernel_width, the loop from k on.  With overflow
\* checks a shift by usize::BITS and a product past usize::MAX panic; without
\* them the shift amount is masked and the product wraps.
RECURSIVE OrderLoop(_, _, _)
OrderLoop(k, kernel_width, checks) ==
    IF k > UsizeBits
    THEN Panicked
    ELSE IF checks /\ k >= UsizeBits
    THEN Panicked
    ELSE LET radius == 2 ^ (k % UsizeBits)
         IN  IF checks /\ 2 * radius > UsizeMax
             THEN Panicked
             ELSE LET expected_width == (2 * radius + 1) % (2 ^ UsizeBits)
                  IN  IF kernel_width = expected_width
                      THEN Returned(k + 1)
                      ELSE OrderLoop(k + 1, kernel_width, checks)

calculate_block_order_from_kernel_width(kernel_width, checks) == OrderLoop(0, kernel_width, checks)

\* LayeredKernel::new on layers of the given <<width, height>>: layers[0]
\* panics on an empty list, the assertion on unequal dimensions.
LayeredKernelNew(layers, checks) ==
    IF Len(layers) = 0
    THEN Panicked
    ELSE IF \E l \in 1..Len(layers) : layers[l] # layers[1]
    THEN Panicked
    ELSE calculate_block_order_from_kernel_width(layers[1][1], checks)

(***************************************************************************)
(* Kernel::exec of Life and of LayeredKernel, on blocks that are           *)
(* Array2D<bool> of any dimensions                                         *)
(***************************************************************************)
KPanic == [status |-> "panic", block |-> <<>>]

KReturn(block) == [status |-> "returned", block |-> block]

\* Life::exec, first loop: block[(x, y)] is read for x, y in 0..2 of each of
\* the four blocks, and panics out of range
LifeReadsInRange(blocks) ==
    \A b \in 1..4, x \in 0..1, y \in 0..1 : ArrInRange(blocks[b], x, y)

\* Life::exec, first loop: the four cells it copies out of a block
LifeCorner(block) ==
    <<ArrGet(block, 0, 0), ArrGet(block, 1, 0), ArrGet(block, 0, 1), ArrGet(block, 1, 1)>>

\* Life::exec on Array2D blocks: Array2D::from_array(2, out_data)
LifeExecArray2D(blocks) ==
    IF ~LifeReadsInRange(blocks)
    THEN KPanic
    ELSE KReturn(FromArray(2, LifeExec(<<LifeCorner(blocks[1]), LifeCorner(blocks[2]),
                                         LifeCorner(blocks[3]), LifeCorner(blocks[4])>>)))

\* calc_block_width(kernel): 1 << kernel.order()
calc_block_width(kernel) == 2 ^ kernel.block_order

\* LayeredKernel::exec, the copy loop: block[(x, y)] is read for x, y in 0..w
LayeredBlockReadsInRange(kernel, blocks) ==
    \A b \in 1..4, x \in 0..(calc_block_width(kernel) - 1),
       y \in 0..(calc_block_width(kernel) - 1) : ArrInRange(blocks[b], x, y)

\* LayeredKernel::exec, the copy loop: buf[(x + i*w, y + j*w)] = blocks[i + 2*j][(x, y)]
LayeredBuf(kernel, blocks, px, py) ==
    ArrGet(blocks[(px \div calc_block_width(kernel))
                    + 2 * (py \div calc_block_width(kernel)) + 1],
           px % calc_block_width(kernel), py % calc_block_width(kernel))

\* buf is Array2D::new(w * 2, w * 2)
BufInRange(kernel, p) ==
    /\ p[1] >= 0 /\ p[1] < 2 * calc_block_width(kernel)
    /\ p[2] >= 0 /\ p[2] < 2 * calc_block_width(kernel)

\* a centre that forgets to halve the layer's width and height
LayeredCenterNotHalved(kernel, i, j) ==
    <<ArrWidth(kernel.layers[1]) + i, ArrHeight(kernel.layers[1]) + j>>

\* LayeredKernel::exec: center
LayeredCenter(kernel, i, j) ==
    <<ArrWidth(kernel.layers[1]) \div 2 + i, ArrHeight(kernel.layers[1]) \div 2 + j>>

\* LayeredKernel::exec: the buffer positions (i + x, j + y) the loops over a
\* layer span
LayeredWindow(layer, i, j) ==
    {<<i + x, j + y>> : x \in 0..(ArrWidth(layer) - 1), y \in 0..(ArrHeight(layer) - 1)}

\* LayeredKernel::exec: the buffer positions read for output (i, j); buf is
\* read only where the layer is set (&& short-circuits), and at the centre
LayeredReads(kernel, i, j) ==
    {LayeredCenter(kernel, i, j)} \cup
    UNION {{<<i + x, j + y>> : <<x, y>> \in
               {q \in (0..(ArrWidth(kernel.layers[l]) - 1))
                        \X (0..(ArrHeight(kernel.layers[l]) - 1)) :
                    ArrGet(kernel.layers[l], q[1], q[2])}}
           : l \in 1..Len(kernel.layers)}

\* LayeredKernel::exec: every read buf[(i + x, j + y)] and buf[center] is
\* inside buf, for every output (i, j); a read outside panics
LayeredBufReadsInRange(kernel) ==
    \A i \in 0..(calc_block_width(kernel) - 1), j \in 0..(calc_block_width(kernel) - 1) :
        /\ BufInRange(kernel, LayeredCenter(kernel, i, j))
        /\ \A l \in 1..Len(kernel.layers) :
               \A x \in 0..(ArrWidth(kernel.layers[l]) - 1),
                  y \in 0..(ArrHeight(kernel.layers[l]) - 1) :
                   ArrGet(kernel.layers[l], x, y) => BufInRange(kernel, <<i + x, j + y>>)

\* LayeredKernel::exec: the count of layer l for output (i, j)
LayeredCount(kernel, l, blocks, i, j) ==
    Cardinality({q \in (0..(ArrWidth(kernel.layers[l]) - 1))
                         \X (0..(ArrHeight(kernel.layers[l]) - 1)) :
                    /\ ArrGet(kernel.layers[l], q[1], q[2])
                    /\ LayeredBuf(kernel, blocks, i + q[1], j + q[2])})

\* life_layered_kernel: decider
life_decider(center, counts) ==
    IF center THEN counts[1] \in {2, 3} ELSE counts[1] = 3

\* The decider without its first test: a count of 33 or less leaves the centre
larger_than_life_decider_without_low_band(center, counts) ==
    IF counts[1] >= 58 /\ counts[1] <= 121 THEN FALSE
    ELSE IF counts[1] >= 34 /\ counts[1] <= 45 THEN TRUE
    ELSE center

\* larger_than_life_layered_kernel: decider
larger_than_life_decider(center, counts) ==
    IF counts[1] >= 58 /\ counts[1] <= 121 THEN FALSE
    ELSE IF counts[1] >= 34 /\ counts[1] <= 45 THEN TRUE
    ELSE IF counts[1] <= 33 THEN FALSE
    ELSE center

\* (self.decider)(buf[center], &counts)
Decide(kernel, center, counts) ==
    IF kernel.decider = "life"
    THEN life_decider(center, counts)
    ELSE larger_than_life_decider(center, counts)

\* LayeredKernel::exec: the result for output (i, j)
LayeredCell(kernel, blocks, i, j) ==
    Decide(kernel,
           LayeredBuf(kernel, blocks, LayeredCenter(kernel, i, j)[1],
                      LayeredCenter(kernel, i, j)[2]),
           [l \in 1..Len(kernel.layers) |-> LayeredCount(kernel, l, blocks, i, j)])

\* LayeredKernel::exec: out_data is pushed with j outside and i inside
LayeredExec(kernel, blocks) ==
    IF calc_block_width(kernel) # ArrWidth(blocks[1])
    THEN KPanic
    ELSE IF ~LayeredBlockReadsInRange(kernel, blocks)
    THEN KPanic
    ELSE IF ~LayeredBufReadsInRange(kernel)
    THEN KPanic
    ELSE KReturn(FromArray(calc_block_width(kernel),
             [k \in 1..(calc_block_width(kernel) * calc_block_width(kernel)) |->
                 LayeredCell(kernel, blocks, (k - 1) % calc_block_width(kernel),
                             (k - 1) \div calc_block_width(kernel))]))

\* LayeredKernel::new(decider, layers), for layers of a valid width
LayeredKernelOf(decider, layers) ==
    [decider |-> decider, layers |-> layers,
     block_order |-> LayeredKernelNew(
         [l \in 1..Len(layers) |-> <<ArrWidth(layers[l]), ArrHeight(layers[l])>>],
         TRUE).order]

\* life_layered_kernel()
life_layered_kernel ==
    LayeredKernelOf("life",
        <<FromArray(3, <<TRUE, TRUE, TRUE, TRUE, FALSE, TRUE, TRUE, TRUE, TRUE>>)>>)

\* larger_than_life_layered_kernel(): rows and columns 3..13 of the 17 x 17
\* mask are set
larger_than_life_layered_kernel ==
    LayeredKernelOf("larger_than_life",
        <<FromArray(17, [k \in 1..(17 * 17) |->
              /\ (k - 1) % 17 >= 3 /\ (k - 1) % 17 <= 13
              /\ (k - 1) \div 17 >= 3 /\ (k - 1) \div 17 <= 13])>>)

\* The layered kernel of a name
LayeredKernelNamed(name) ==
    IF name = "life_layered_kernel" THEN life_layered_kernel
    ELSE larger_than_life_layered_kernel

(***************************************************************************)
(* Spec: the grid                                                          *)
(***************************************************************************)
NoCall == [fn |-> "none", width |-> 0, layers |-> <<>>, result |-> Panicked]

NoExec == [blocks |-> <<>>, block |-> <<>>, hit |-> FALSE, gc |-> FALSE,
           pos |-> 0, wrap_calls |-> 0, sizes |-> <<0, 0>>,
           collected |-> {}, evicted |-> FALSE, hashes |-> <<>>, soln_idx |-> 0,
           panic |-> FALSE]

NoKExec == [kernel |-> "none", order |-> 0, called |-> FALSE, blocks |-> <<>>,
            result |-> KPanic]

NoDecide == [called |-> FALSE, center |-> FALSE, neighbors |-> 0, output |-> FALSE]

\* No Kernel::exec call on a bare kernel and no decider call was made
KernelIdle == kexec = NoKExec /\ decided = NoDecide

\* No step is under way
ParIdle ==
    /\ stepping = FALSE
    /\ todo = {}

\* KernelCache::new
CacheNew ==
    /\ cache = EmptyMap
    /\ solutions = <<>>
    /\ values = EmptyMap
    /\ hits = 0
    /\ next_idx = 0
    /\ ncalls = 0
    /\ last = NoExec

\* No call of the block-order derivation was made
OrderIdle ==
    /\ overflow_checks = TRUE
    /\ call = NoCall

\* Dense without a grid: the state the other specifications leave the grid in
DenseIdle ==
    /\ dims = <<1, 1>>
    /\ front = DenseNewArray(1, 1)
    /\ back = DenseNewArray(1, 1)
    /\ zero_borders = TRUE
    /\ nsteps = 0
    /\ nsets = 0
    /\ gen = {}
    /\ seed = {}
    /\ late = FALSE
    /\ panicked = FALSE

\* Dense::new(Box::new(Life), W, H)
Init ==
    /\ dims \in GridDims
    /\ front = DenseNewArray(dims[1], dims[2])
    /\ back = DenseNewArray(dims[1], dims[2])
    /\ zero_borders = TRUE
    /\ nsteps = 0
    /\ nsets = 0
    /\ gen = {}
    /\ seed = {}
    /\ late = FALSE
    /\ panicked = FALSE
    /\ OrderIdle
    /\ CacheNew
    /\ KernelIdle
    /\ ParIdle

\* Bulk seeding before the first step through data_mut(): every cell of
\* `live` is written true in the block at (px div w, py div w), at offset
\* (px mod w, py mod w) of that block.
SeedFront(f, live) ==
    [f EXCEPT !.data = [k \in 1..Len(f.data) |->
        LET bx == (k - 1) % f.width
            by == (k - 1) \div f.width
        IN  [o \in 1..(BlockWidth * BlockWidth) |->
                <<bx * BlockWidth + ((o - 1) % BlockWidth),
                  by * BlockWidth + ((o - 1) \div BlockWidth)>> \in live]]]

data_mut(live) ==
    /\ ~panicked
    /\ nsteps = 0
    /\ nsets = 0
    /\ front' = SeedFront(front, live)
    /\ gen' = live
    /\ seed' = live
    /\ nsets' = Cardinality(live)
    /\ UNCHANGED <<dims, back, zero_borders, nsteps, late, panicked>>
    /\ UNCHANGED <<order_vars, cache_vars, kernel_vars, par_vars>>

\* Dense::set_pixel((px, py), val)
set_pixel(px, py, val) ==
    /\ ~panicked
    /\ nsets < MaxSets
    /\ IF ~PixelPanics(front, zero_borders, px, py)
           THEN /\ front' = SetPixelFront(front, zero_borders, px, py, val)
                /\ gen' = IF val THEN gen \cup {<<px, py>>} ELSE gen \ {<<px, py>>}
                /\ seed' = IF nsteps = 0 THEN gen' ELSE seed
                /\ late' = (late \/ nsteps > 0)
                /\ nsets' = nsets + 1
                /\ UNCHANGED panicked
           ELSE /\ panicked' = TRUE
                /\ UNCHANGED <<front, gen, seed, late, nsets>>
    /\ UNCHANGED <<dims, back, zero_borders, nsteps>>
    /\ UNCHANGED <<order_vars, cache_vars, kernel_vars, par_vars>>

\* Dense::get_pixel((px, py))
ReadPixel(px, py) ==
    /\ ~panicked
    /\ panicked' = PixelPanics(front, zero_borders, px, py)
    /\ UNCHANGED <<dims, front, back, zero_borders, nsteps, nsets, gen, seed, late>>
    /\ UNCHANGED <<order_vars, cache_vars, kernel_vars, par_vars>>

\* Dense::step() without the toggle of zero_borders
step_without_toggle ==
    /\ ~panicked
    /\ nsteps < MaxSteps
    /\ front' = StepBack(front, back, zero_borders)
    /\ back' = front
    /\ nsteps' = nsteps + 1
    /\ gen' = RefNext(dims, gen)
    /\ UNCHANGED <<dims, zero_borders, nsets, seed, late, panicked>>
    /\ UNCHANGED <<order_vars, cache_vars, kernel_vars, par_vars>>

\* Dense::step()
step ==
    /\ ~panicked
    /\ nsteps < MaxSteps
    /\ front' = StepBack(front, back, zero_borders)
    /\ back' = front
    /\ zero_borders' = ~zero_borders
    /\ nsteps' = nsteps + 1
    /\ gen' = RefNext(dims, gen)
    /\ UNCHANGED <<dims, nsets, seed, late, panicked>>
    /\ UNCHANGED <<order_vars, cache_vars, kernel_vars, par_vars>>

Seed ==
    /\ nsteps = 0 /\ nsets = 0 /\ ~panicked
    /\ \E live \in SeedPatterns(dims) : data_mut(live)

Set == \E p \in Viewport(dims), val \in BOOLEAN : set_pixel(p[1], p[2], val)

Read == \E p \in Viewport(dims) : ReadPixel(p[1], p[2])

Next == Seed \/ Set \/ Read \/ step

Spec == Init /\ [][Next]_vars

(***************************************************************************)
(* SpecCache: sequences of KernelCache::exec calls on a cache wrapping the *)
(* Life kernel                                                             *)
(***************************************************************************)
FullBlock == [k \in 1..(BlockWidth * BlockWidth) |-> TRUE]

\* <<TRUE, FALSE, FALSE, FALSE>>: what Life returns with only the NW block full
CornerBlock == [k \in 1..(BlockWidth * BlockWidth) |-> k = 1]

\* The 4-tuples exec is called with
InputTuples ==
    {<<a, b, c, ZeroBlock>> : a \in {ZeroBlock, FullBlock}, b \in {ZeroBlock, FullBlock},
                              c \in {ZeroBlock, FullBlock}}
    \cup {<<CornerBlock, ZeroBlock, ZeroBlock, ZeroBlock>>,
          <<ZeroBlock, ZeroBlock, ZeroBlock, CornerBlock>>}

InitCache ==
    /\ DenseIdle
    /\ OrderIdle
    /\ CacheNew
    /\ KernelIdle
    /\ ParIdle

\* KernelCache::exec(blocks)
exec(blocks) ==
    /\ ~last.panic
    /\ ncalls < MaxCalls
    /\ \E r \in {CacheExec(blocks)} :
           /\ cache' = r.cache
           /\ values' = r.values
           /\ next_idx' = r.next_idx
           /\ solutions' = r.solutions
           /\ hits' = r.hits
           /\ last' = [blocks |-> blocks, block |-> r.block, hit |-> r.hit,
                       pos |-> r.pos, wrap_calls |-> r.wrap_calls, sizes |-> r.sizes,
                       gc |-> r.gc, collected |-> r.collected, evicted |-> r.evicted,
                       hashes |-> r.hashes, soln_idx |-> r.soln_idx, panic |-> r.panic]
    /\ ncalls' = ncalls + 1
    /\ UNCHANGED <<dense_vars, order_vars, kernel_vars, par_vars>>

NextCache == ncalls < MaxCalls /\ \E blocks \in InputTuples : exec(blocks)

SpecCache == InitCache /\ [][NextCache]_vars

(***************************************************************************)
(* SpecOrder: calls of calculate_block_order_from_kernel_width and of      *)
(* LayeredKernel::new, in a build with or without overflow checks          *)
(***************************************************************************)
\* The <<width, height>> of the layers LayeredKernel::new is called with
LayerDims == {<<1, 1>>, <<3, 3>>, <<5, 5>>, <<8, 8>>, <<9, 9>>, <<17, 17>>,
              <<33, 33>>, <<3, 5>>, <<UsizeMax, UsizeMax>>}

LayerLists ==
    {<<>>} \cup {<<a>> : a \in LayerDims} \cup (LayerDims \X LayerDims)

InitOrder ==
    /\ DenseIdle
    /\ CacheNew
    /\ KernelIdle
    /\ ParIdle
    /\ overflow_checks \in BOOLEAN
    /\ call = NoCall

\* calculate_block_order_from_kernel_width(kernel_width)
CalcOrder(kernel_width) ==
    /\ call.fn = "none"
    /\ call' = [fn |-> "calculate_block_order_from_kernel_width",
                width |-> kernel_width, layers |-> <<>>,
                result |-> calculate_block_order_from_kernel_width(kernel_width, overflow_checks)]
    /\ UNCHANGED <<overflow_checks, dense_vars, cache_vars, kernel_vars, par_vars>>

\* LayeredKernel::new(decider, layers)
NewLayered(layers) ==
    /\ call.fn = "none"
    /\ call' = [fn |-> "LayeredKernel::new",
                width |-> IF Len(layers) = 0 THEN 0 ELSE layers[1][1],
                layers |-> layers,
                result |-> LayeredKernelNew(layers, overflow_checks)]
    /\ UNCHANGED <<overflow_checks, dense_vars, cache_vars, kernel_vars, par_vars>>

Calc == call.fn = "none" /\ \E kernel_width \in 0..UsizeMax : CalcOrder(kernel_width)

New == call.fn = "none" /\ \E layers \in LayerLists : NewLayered(layers)

NextOrder == Calc \/ New

SpecOrder == InitOrder /\ [][NextOrder]_vars

(***************************************************************************)
(* SpecKernel: one Kernel::exec call on the Life kernel or on a layered    *)
(* kernel, with well-formed and with ill-formed 4-tuples                   *)
(***************************************************************************)
\* A width x height Array2D<bool> with every cell v
Filled(width, height, v) == FromArray(width, [k \in 1..(width * height) |-> v])

\* Every 2 x 2 block
Blocks2x2 == {FromArray(2, <<a, b, c, d>>) : a \in BOOLEAN, b \in BOOLEAN,
                                              c \in BOOLEAN, d \in BOOLEAN}

\* All 2^16 4-tuples of 2 x 2 blocks
Tuples2x2 == Blocks2x2 \X Blocks2x2 \X Blocks2x2 \X Blocks2x2

\* 4-tuples with the block `odd` at one position and `good` at the others
OneOdd(good, odd) ==
    {[b \in 1..4 |-> IF b = at THEN odd ELSE good] : at \in 1..4}

\* Ill-formed 4-tuples for a kernel of block width 2
OddTuples2 ==
    UNION {OneOdd(Filled(2, 2, TRUE), odd) :
              odd \in {Filled(1, 1, TRUE), Filled(4, 4, TRUE), Filled(2, 4, TRUE),
                       Filled(4, 2, TRUE), Filled(2, 1, TRUE)}}

\* A 16 x 16 block whose only live cell is (x, y)
OneCell16(x, y) == FromArray(16, [k \in 1..256 |-> k = x + 16 * y + 1])

\* 4-tuples of 16 x 16 blocks with one live cell in all: at the four cells
\* around the centre of the assembly, at a corner of it and inside a block
SingleCellTuples16 ==
    {[b \in 1..4 |-> IF b = c[1] THEN OneCell16(c[2], c[3]) ELSE Filled(16, 16, FALSE)] :
        c \in {<<1, 15, 15>>, <<2, 0, 15>>, <<3, 15, 0>>, <<4, 0, 0>>,
               <<1, 0, 0>>, <<4, 8, 8>>}}

\* arr.data().iter().filter(|x| **x).count()
count_true(arr) == Cardinality({k \in 1..Len(arr.data) : arr.data[k]})

\* 4-tuples for a kernel of block width 16: all-false and all-true blocks,
\* blocks with a single live cell, and ill-formed tuples
Tuples16 ==
    SingleCellTuples16 \cup
    {[b \in 1..4 |-> Filled(16, 16, on[b])] :
        on \in {<<FALSE, FALSE, FALSE, FALSE>>, <<TRUE, TRUE, TRUE, TRUE>>,
                <<TRUE, FALSE, FALSE, FALSE>>, <<FALSE, TRUE, TRUE, FALSE>>}}
    \cup UNION {OneOdd(Filled(16, 16, FALSE), odd) :
                   odd \in {Filled(2, 2, TRUE), Filled(32, 32, TRUE), Filled(16, 17, TRUE)}}

\* The order() of a kernel: Life::order, LayeredKernel::order
KernelOrder(name) ==
    IF name = "Life" THEN LifeOrder ELSE LayeredKernelNamed(name).block_order

\* Life, life_layered_kernel() or larger_than_life_layered_kernel() was
\* constructed and exec not called yet
InitKernel ==
    /\ DenseIdle
    /\ OrderIdle
    /\ CacheNew
    /\ ParIdle
    /\ kexec \in {[NoKExec EXCEPT !.kernel = name, !.order = KernelOrder(name)] :
                     name \in {"Life", "life_layered_kernel",
                               "larger_than_life_layered_kernel"}}
    /\ decided = NoDecide

\* Life.exec(blocks)
ExecLife(blocks) ==
    /\ kexec.kernel = "Life" /\ ~kexec.called
    /\ kexec' = [kexec EXCEPT !.called = TRUE, !.blocks = blocks,
                              !.result = LifeExecArray2D(blocks)]
    /\ UNCHANGED <<dense_vars, order_vars, cache_vars, par_vars, decided>>

\* LayeredKernel::exec(blocks) of the layered kernel constructed
ExecLayered(kernel, blocks) ==
    /\ ~kexec.called
    /\ kexec' = [kexec EXCEPT !.called = TRUE, !.blocks = blocks,
                              !.result = LayeredExec(kernel, blocks)]
    /\ UNCHANGED <<dense_vars, order_vars, cache_vars, par_vars, decided>>

\* decider(center, &[neighbors]) of larger_than_life_layered_kernel()
decider(center, neighbors) ==
    /\ ~decided.called
    /\ decided' = [called |-> TRUE, center |-> center, neighbors |-> neighbors,
                   output |-> larger_than_life_decider(center, <<neighbors>>)]
    /\ UNCHANGED <<dense_vars, order_vars, cache_vars, par_vars, kexec>>

OnLife ==
    /\ kexec.kernel = "Life" /\ ~kexec.called
    /\ \E blocks \in Tuples2x2 \cup OddTuples2 : ExecLife(blocks)

OnLifeLayered ==
    /\ kexec.kernel = "life_layered_kernel" /\ ~kexec.called
    /\ \E kernel \in {life_layered_kernel} :
           \E blocks \in Tuples2x2 \cup OddTuples2 : ExecLayered(kernel, blocks)

OnLargerThanLife ==
    /\ kexec.kernel = "larger_than_life_layered_kernel" /\ ~kexec.called
    /\ ~decided.called
    /\ \E kernel \in {larger_than_life_layered_kernel} :
           \E blocks \in Tuples16 : ExecLayered(kernel, blocks)

\* The decider on its own, with every count one layer of the kernel can give
OnDecider ==
    /\ kexec.kernel = "larger_than_life_layered_kernel" /\ ~kexec.called
    /\ ~decided.called
    /\ \E center \in BOOLEAN,
          neighbors \in 0..count_true(larger_than_life_layered_kernel.layers[1]) :
           decider(center, neighbors)

NextKernel == OnLife \/ OnLifeLayered \/ OnLargerThanLife \/ OnDecider

SpecKernel == InitKernel /\ [][NextKernel]_vars

(***************************************************************************)
(* SpecPar: Dense over a KernelCache wrapping Life; a step visits its      *)
(* destinations one at a time, in any order, reading the front buffer and  *)
(* writing the back buffer, then swaps                                     *)
(***************************************************************************)
\* The (W, H) pairs of the grids stepped
ParDims == {<<2, 2>>, <<3, 2>>}

\* The patterns the grids stepped are seeded with through data_mut
ParSeeds == SUBSET {<<1, 1>>, <<2, 1>>, <<1, 2>>}

\* Dense::new(Box::new(KernelCache::new(Box::new(Life))), W, H)
InitPar ==
    /\ dims \in ParDims
    /\ front = DenseNewArray(dims[1], dims[2])
    /\ back = DenseNewArray(dims[1], dims[2])
    /\ zero_borders = TRUE
    /\ nsteps = 0
    /\ nsets = 0
    /\ gen = {}
    /\ seed = {}
    /\ late = FALSE
    /\ panicked = FALSE
    /\ OrderIdle
    /\ CacheNew
    /\ KernelIdle
    /\ ParIdle

\* Dense::step is entered: every destination of the two loops is to visit
BeginStep ==
    /\ ~stepping
    /\ nsteps < MaxSteps
    /\ stepping' = TRUE
    /\ todo' = StepRangeI(front) \X StepRangeJ(front)
    /\ UNCHANGED <<dense_vars, order_vars, cache_vars, kernel_vars>>

\* Dense::step, the body of the loops for destination (i, j), the kernel
\* being the KernelCache: the block it returns goes to back[(i, j)]
Visit(i, j) ==
    /\ stepping
    /\ <<i, j>> \in todo
    /\ \E r \in {CacheExec(in_blocks(front, zero_borders, i, j))} :
           /\ back' = ArrSet(back, i, j, r.block)
           /\ cache' = r.cache
           /\ values' = r.values
           /\ next_idx' = r.next_idx
           /\ solutions' = r.solutions
           /\ hits' = r.hits
           /\ last' = [blocks |-> in_blocks(front, zero_borders, i, j),
                       block |-> r.block, hit |-> r.hit,
                       pos |-> r.pos, wrap_calls |-> r.wrap_calls, sizes |-> r.sizes,
                       gc |-> r.gc, collected |-> r.collected, evicted |-> r.evicted,
                       hashes |-> r.hashes, soln_idx |-> r.soln_idx, panic |-> r.panic]
    /\ ncalls' = ncalls + 1
    /\ todo' = todo \ {<<i, j>>}
    /\ UNCHANGED <<dims, front, zero_borders, nsteps, nsets, gen, seed, late, panicked>>
    /\ UNCHANGED <<stepping, order_vars, kernel_vars>>

\* Dense::step, after the loops: swap and toggle
EndStep ==
    /\ stepping
    /\ todo = {}
    /\ front' = back
    /\ back' = front
    /\ zero_borders' = ~zero_borders
    /\ nsteps' = nsteps + 1
    /\ gen' = RefNext(dims, gen)
    /\ stepping' = FALSE
    /\ UNCHANGED <<dims, nsets, seed, late, panicked, todo>>
    /\ UNCHANGED <<order_vars, cache_vars, kernel_vars>>

SeedPar ==
    /\ ~stepping /\ nsteps = 0 /\ nsets = 0
    /\ \E live \in ParSeeds \ {{}} : data_mut(live)

VisitAny == stepping /\ \E d \in todo : Visit(d[1], d[2])

NextPar == SeedPar \/ BeginStep \/ VisitAny \/ EndStep

SpecPar == InitPar /\ [][NextPar]_vars

(***************************************************************************)
(* Claims about the grid                                                   *)
(***************************************************************************)
\* get_pixel((px, py)) returned, and returned val
PixelIs(px, py, val) ==
    /\ ~PixelPanics(front, zero_borders, px, py)
    /\ get_pixel(front, zero_borders, px, py) = val

\* C1: after any number of step() calls, get_pixel((x, y)) of every pixel of
\* the W*w x H*w field is cell (x, y) of the same generation of the reference
\* automaton with a fixed-zero boundary.
C1_PixelsFollowReference ==
    ~panicked => \A p \in Viewport(dims) : PixelIs(p[1], p[2], p \in gen)

\* C4: front and back are (W+1) x (H+1) arrays; after Dense::new every block
\* is all-false of side 2^order and zero_borders is true.
C4_BuffersAreWPlus1ByHPlus1 ==
    /\ ArrWidth(front) = dims[1] + 1 /\ ArrHeight(front) = dims[2] + 1
    /\ ArrWidth(back) = dims[1] + 1 /\ ArrHeight(back) = dims[2] + 1
    /\ (nsteps = 0 /\ nsets = 0) =>
          /\ zero_borders
          /\ \A k \in 1..Len(front.data) : front.data[k] = ZeroBlock
          /\ \A k \in 1..Len(back.data) : back.data[k] = ZeroBlock

\* C5: pixel_dims() is (W*w, H*w) in both phases, after any number of steps.
C5_PixelDimsAreLogicalSize ==
    pixel_dims(front) = <<dims[1] * BlockWidth, dims[2] * BlockWidth>>

\* C6: the accessors address block (px div w, py div w) at offset
\* (px mod w, py mod w), the pixel index being shifted by (w/2, w/2) first
\* when zero_borders is false.
C6_AccessorsDecomposePixelIndex ==
    \A p \in Viewport(dims) :
        LET shift == IF zero_borders THEN 0 ELSE BlockWidth \div 2
            sx == p[1] + shift
            sy == p[2] + shift
        IN  /\ index_block_pixel(zero_borders, p[1], p[2])
                   = <<sx \div BlockWidth, sy \div BlockWidth>>
            /\ BlockIndex(p[1], p[2])
                   = (sx % BlockWidth) + BlockWidth * (sy % BlockWidth)

\* C7: the 6 x 6 grid seeded with the blinker (1,2), (2,2), (3,2) shows
\* exactly (2,1), (2,2), (2,3) after one step and the seed again after two.
C7_BlinkerOscillates ==
    (dims = <<3, 3>> /\ seed = Blinker /\ ~late /\ ~panicked) =>
        /\ nsteps = 1 =>
              \A p \in Viewport(dims) :
                  PixelIs(p[1], p[2], p \in {<<2, 1>>, <<2, 2>>, <<2, 3>>})
        /\ nsteps = 2 =>
              \A p \in Viewport(dims) : PixelIs(p[1], p[2], p \in Blinker)

\* C8: a grid seeded entirely false (nothing was written to it) reads false at every pixel after every
\* number of steps, and every block of the front buffer stays all-false.
C8_EmptyStaysEmpty ==
    (nsets = 0 /\ ~panicked) =>
        /\ \A k \in 1..Len(front.data) : front.data[k] = ZeroBlock
        /\ \A p \in Viewport(dims) : PixelIs(p[1], p[2], FALSE)

\* The pixels inside pixel_dims()
PixelsInDims(f) == (0..(pixel_dims(f)[1] - 1)) \X (0..(pixel_dims(f)[2] - 1))

\* C21: in both phases and for every pixel p inside pixel_dims(),
\* set_pixel(p, v) makes no out-of-range access, get_pixel(p) then returns v
\* and get_pixel(q) is as before for every other pixel q inside pixel_dims().
C21_StoreSelect ==
    ~panicked =>
        \A p \in PixelsInDims(front), v \in BOOLEAN :
            /\ ~PixelPanics(front, zero_borders, p[1], p[2])
            /\ get_pixel(SetPixelFront(front, zero_borders, p[1], p[2], v),
                         zero_borders, p[1], p[2]) = v
            /\ \A q \in PixelsInDims(front) \ {p} :
                   /\ ~PixelPanics(front, zero_borders, q[1], q[2])
                   /\ get_pixel(SetPixelFront(front, zero_borders, p[1], p[2], v),
                                zero_borders, q[1], q[2])
                        = get_pixel(front, zero_borders, q[1], q[2])

\* The block at (x, y) of a (W+1) x (H+1) buffer, all-false outside it
BorderedBlock(arr, x, y) ==
    IF x < 0 \/ y < 0 \/ x >= dims[1] + 1 \/ y >= dims[2] + 1 \/ ~ArrInRange(arr, x, y)
    THEN ZeroBlock
    ELSE ArrGet(arr, x, y)

\* C12: after a step, every position (i, j) of the (W+1) x (H+1) front buffer
\* holds the kernel's output on the four blocks at (x, y), (x+1, y), (x, y+1),
\* (x+1, y+1) of the buffer that was the front before the step (now the
\* back), (x, y) being (i-1, j-1) when the step ran with zero_borders true
\* and (i, j) otherwise; no position keeps older content.
C12_StepWritesEveryPosition ==
    (nsteps > 0 /\ ~late) =>
        \A i \in 0..dims[1], j \in 0..dims[2] :
            LET x == IF ~zero_borders THEN i - 1 ELSE i
                y == IF ~zero_borders THEN j - 1 ELSE j
            IN  /\ ArrInRange(front, i, j)
                /\ ArrGet(front, i, j)
                     = KernelExec(<<BorderedBlock(back, x, y),
                                    BorderedBlock(back, x + 1, y),
                                    BorderedBlock(back, x, y + 1),
                                    BorderedBlock(back, x + 1, y + 1)>>)

\* C13: zero_borders is true exactly after an even number of completed
\* steps; a step swaps the buffers once (the old front becomes the back, the
\* buffer the step wrote becomes the front) and toggles zero_borders once;
\* set_pixel and get_pixel leave zero_borders and the back buffer alone.
C13_PhaseAlternatesWithSwap ==
    /\ [](zero_borders <=> nsteps % 2 = 0)
    /\ [][/\ nsteps' = nsteps + 1 =>
                /\ zero_borders' = ~zero_borders
                /\ back' = front
                /\ \A i \in StepRangeI(front), j \in StepRangeJ(front) :
                       ArrGet(front', i, j) = StepBlock(front, zero_borders, i, j)
          /\ nsteps' = nsteps =>
                /\ zero_borders' = zero_borders
                /\ back' = back
                /\ ArrWidth(front') = ArrWidth(front)
                /\ Len(front'.data) = Len(front.data)]_vars

\* Two steps with a set_pixel between them: the phase is back to zero borders
C13_TwoStepsAndALateWrite ==
    nsteps = 2 /\ zero_borders /\ late /\ ~panicked /\ back # front

\* C14: during a step the front buffer is only read and the back buffer
\* only written, so whatever the order of the visits every destination
\* visited holds the kernel's output on the front buffer, and when all are
\* visited the back buffer (the next front) is the one the row-major loops
\* of step produce.
C14_VisitOrderDoesNotMatter ==
    /\ [](stepping =>
            /\ \A i \in StepRangeI(front), j \in StepRangeJ(front) :
                   <<i, j>> \notin todo =>
                       ArrGet(back, i, j) = StepBlock(front, zero_borders, i, j)
            /\ todo = {} => back = StepBack(front, back, zero_borders))
    /\ [][(stepping /\ stepping') =>
            /\ front' = front
            /\ \A k \in 1..Len(back.data) :
                   back'.data[k] # back.data[k] =>
                       \E d \in todo \ todo' : k = ArrOffset(back, d[1], d[2]) + 1]_vars

\* Every destination of a step was visited, with cache hits and a collection
\* on the way, and the step wrote live cells
C14_StepDoneThroughTheCache ==
    /\ stepping /\ todo = {}
    /\ hits > 0
    /\ Cardinality(DOMAIN values) < next_idx
    /\ \E k \in 1..Len(back.data) : back.data[k] # ZeroBlock

(***************************************************************************)
(* Claims about the kernels                                                *)
(***************************************************************************)
\* The block is width x width
IsSquare(block, width) ==
    ArrWidth(block) = width /\ Len(block.data) = width * width

\* C11: exec on a 4-tuple with a block that is not w x w (w = 2^order) fails
\* with a panic instead of returning, and every block exec returns is w x w.
C11_IllFormedInputPanics ==
    kexec.called =>
        /\ (\E b \in 1..4 : ~IsSquare(kexec.blocks[b], 2 ^ kexec.order))
              => kexec.result.status = "panic"
        /\ kexec.result.status = "returned"
              => IsSquare(kexec.result.block, 2 ^ kexec.order)

\* C15: in LayeredKernel::exec with M = 2 * 2^(order-1) + 1 and w = 2^order,
\* for every output (i, j) the M x M window at (i, j) and the centre
\* (i + M/2, j + M/2) lie inside the 2w x 2w buffer, the centre is the cell
\* (i + w/2, j + w/2) of the buffer, no read panics on w x w blocks, and
\* output (i, j) is element i + w * j of the block returned.
C15_WindowFitsTheBuffer ==
    (/\ kexec.kernel \in {"life_layered_kernel", "larger_than_life_layered_kernel"}
     /\ kexec.called
     /\ \A b \in 1..4 : IsSquare(kexec.blocks[b], 2 ^ kexec.order)) =>
        LET kernel == LayeredKernelNamed(kexec.kernel)
            w == 2 ^ kernel.block_order
            M == ArrWidth(kernel.layers[1])
        IN  /\ M = 2 * 2 ^ (kernel.block_order - 1) + 1
            /\ kexec.result.status = "returned"
            /\ Len(kexec.result.block.data) = w * w
            /\ \A i \in 0..(w - 1), j \in 0..(w - 1) :
                  /\ \A p \in LayeredWindow(kernel.layers[1], i, j) : BufInRange(kernel, p)
                  /\ LayeredReads(kernel, i, j) \subseteq
                         LayeredWindow(kernel.layers[1], i, j)
                  /\ BufInRange(kernel, LayeredCenter(kernel, i, j))
                  /\ LayeredCenter(kernel, i, j) = <<i + M \div 2, j + M \div 2>>
                  /\ LayeredCenter(kernel, i, j) = <<i + w \div 2, j + w \div 2>>
                  /\ kexec.result.block.data[i + w * j + 1]
                         = LayeredCell(kernel, kexec.blocks, i, j)

\* A larger-than-life call that returned a block with a live cell
C15_LargerThanLifeReturned ==
    /\ kexec.kernel = "larger_than_life_layered_kernel"
    /\ kexec.called
    /\ kexec.result.status = "returned"
    /\ \E k \in 1..Len(kexec.result.block.data) : kexec.result.block.data[k]
    /\ \A b \in 1..4 : IsSquare(kexec.blocks[b], 16)

\* Cell (px, py) of the 4 x 4 assembly of 2 x 2 blocks 0 = NW, 1 = NE,
\* 2 = SW, 3 = SE
Assembly(blocks, px, py) ==
    LET block == IF py < 2 THEN (IF px < 2 THEN blocks[1] ELSE blocks[2])
                           ELSE (IF px < 2 THEN blocks[3] ELSE blocks[4])
    IN  block.data[(px % 2) + 2 * (py % 2) + 1]

\* 1 for a live cell of the assembly, 0 for a dead one
Alive(blocks, px, py) == IF Assembly(blocks, px, py) THEN 1 ELSE 0

\* The Life rule at cell (px, py) of the assembly: survive on 2 or 3 live
\* neighbours, birth on exactly 3
LifeRule(blocks, px, py) ==
    LET n == Alive(blocks, px - 1, py - 1) + Alive(blocks, px, py - 1)
               + Alive(blocks, px + 1, py - 1) + Alive(blocks, px - 1, py)
               + Alive(blocks, px + 1, py) + Alive(blocks, px - 1, py + 1)
               + Alive(blocks, px, py + 1) + Alive(blocks, px + 1, py + 1)
    IN  IF Assembly(blocks, px, py) THEN n \in {2, 3} ELSE n = 3

LiveCells(blocks) ==
    count_true(blocks[1]) + count_true(blocks[2])
        + count_true(blocks[3]) + count_true(blocks[4])

C2_CacheIsTransparent ==
    ncalls > 0 => (~last.panic /\ last.block = LifeExec(last.blocks))

\* A hit whose call ran a garbage collection that removed identities
C2_HitAfterCollection ==
    /\ last.hit /\ last.gc /\ last.collected # {}
    /\ last.block = LifeExec(last.blocks)

\* The identities of the solutions LRU: four key ids and a value id per entry
SolutionIds ==
    UNION {{solutions[i].key[1], solutions[i].key[2], solutions[i].key[3],
            solutions[i].key[4], solutions[i].val} : i \in 1..Len(solutions)}

\* C3: every identity in the solutions LRU is a key of the value map and the
\* target of an entry of the content-id map, and values.get(&soln_idx).unwrap()
\* never fails.
C3_SolutionIdsAreLive ==
    /\ ~last.panic
    /\ \A id \in SolutionIds :
          /\ id \in DOMAIN values
          /\ \E b \in DOMAIN cache : cache[b] = id

\* A miss that evicted from a full LRU, after a collection dropped identities
C3_EvictionAfterCollection ==
    /\ last.evicted
    /\ hits > 0
    /\ Cardinality(DOMAIN values) < next_idx
    /\ SolutionIds # {}

\* The identities the content-id map maps to
CacheIds == {cache[b] : b \in DOMAIN cache}

\* The entries of an LRU, as a set
LruEntries(solns) == {solns[i] : i \in 1..Len(solns)}

\* C16: a call whose identity 4-tuple is in the solutions LRU adds exactly 1
\* to hits, moves that entry to the front, keeps the entries and returns the
\* cached block without a call of the wrapped kernel; a call whose 4-tuple is
\* absent calls the wrapped kernel once, puts the new entry at the front,
\* evicts (the last entry) only at capacity and leaves hits alone; hits never
\* decreases and the LRU never exceeds its capacity.
C16_HitAndMissBookkeeping ==
    /\ [](Len(solutions) <= LruCapacity)
    /\ [][ncalls' = ncalls + 1 =>
            LET present == \E i \in 1..Len(solutions) : solutions[i].key = last'.hashes
            IN  /\ hits' >= hits
                /\ present =>
                      /\ hits' = hits + 1
                      /\ last'.wrap_calls = 0
                      /\ solutions'[1].key = last'.hashes
                      /\ LruEntries(solutions') = LruEntries(solutions)
                      /\ Len(solutions') = Len(solutions)
                      /\ last'.block = values'[solutions'[1].val]
                /\ ~present =>
                      /\ hits' = hits
                      /\ last'.wrap_calls = 1
                      /\ solutions'[1] = [key |-> last'.hashes, val |-> last'.soln_idx]
                      /\ last'.block = LifeExec(last'.blocks)
                      /\ IF Len(solutions) < LruCapacity
                         THEN solutions' = <<solutions'[1]>> \o solutions
                         ELSE solutions' = <<solutions'[1]>>
                                             \o SubSeq(solutions, 1, Len(solutions) - 1)]_vars

\* A hit on an entry that was not the most recently used one, after an
\* eviction-free miss and a hit before it
C16_HitPromotesAnOlderEntry ==
    last.hit /\ last.pos > 1 /\ hits > 1 /\ solutions[1].key = last.hashes

\* C17: a collection runs only in a call that hits and only when one of the
\* two maps is over its threshold at that moment; right after it the
\* identities of the content-id map and the keys of the value map are both
\* exactly the identities of the solutions LRU; a call that misses removes
\* nothing from either map, and while no call has hit nothing was removed.
C17_CollectionOnlyOnHitOverThreshold ==
    /\ [](last.gc =>
            /\ last.hit
            /\ last.sizes[1] > max_cache \/ last.sizes[2] > max_values
            /\ CacheIds = SolutionIds
            /\ DOMAIN values = SolutionIds)
    /\ [](hits = 0 => DOMAIN values = 0..(next_idx - 1))
    /\ [][(ncalls' = ncalls + 1 /\ ~last'.hit) =>
            /\ \A b \in DOMAIN cache : b \in DOMAIN cache' /\ cache'[b] = cache[b]
            /\ \A id \in DOMAIN values : id \in DOMAIN values' /\ values'[id] = values[id]]_vars

\* A collection that dropped identities, in a hit on maps over the threshold
C17_CollectionDroppedIds ==
    /\ last.gc /\ last.hit /\ last.collected # {}
    /\ last.sizes[2] > max_values
    /\ DOMAIN values = SolutionIds

\* C18: after every call that hits, a collecting one included, the
\* content-id map and the value map each hold at most the threshold number of
\* entries.
C18_MapsWithinThresholdAfterHit ==
    (ncalls > 0 /\ last.hit) =>
        /\ Cardinality(DOMAIN cache) <= max_cache
        /\ Cardinality(DOMAIN values) <= max_values

\* C18 as amended: after a call that hits, each map holds at most the
\* threshold number of entries or (after a collection) exactly the identities
\* of the solutions LRU, at most five per entry.
C18_MapsWithinThresholdOrLive ==
    (ncalls > 0 /\ last.hit) =>
        /\ \/ Cardinality(DOMAIN cache) <= max_cache
           \/ CacheIds = SolutionIds /\ Cardinality(DOMAIN cache) <= 5 * Len(solutions)
        /\ \/ Cardinality(DOMAIN values) <= max_values
           \/ DOMAIN values = SolutionIds /\ Cardinality(DOMAIN values) <= 5 * Len(solutions)

\* A collecting hit that leaves more than the threshold in the value map
C18_LiveIdsOverThreshold ==
    last.hit /\ last.gc /\ Cardinality(DOMAIN values) > max_values

\* C19: the content-id map is injective, the value map is its inverse (same
\* identities, values[id] the content mapped to id), every identity is below
\* next_idx, and an identity that enters the maps is at least the next_idx
\* before the call, so a collected identity never comes back.
C19_InterningIsInjectiveAndMonotone ==
    /\ [](/\ \A b1 \in DOMAIN cache, b2 \in DOMAIN cache : cache[b1] = cache[b2] => b1 = b2
          /\ DOMAIN values = CacheIds
          /\ \A b \in DOMAIN cache : values[cache[b]] = b
          /\ \A id \in DOMAIN values : id >= 0 /\ id < next_idx)
    /\ [][/\ next_idx' >= next_idx
          /\ \A id \in (DOMAIN values') \ (DOMAIN values) : id >= next_idx
          /\ Cardinality((DOMAIN values') \ (DOMAIN values)) = next_idx' - next_idx]_vars

\* Identities were collected and a later call interned new content
C19_NewIdAfterCollection ==
    /\ Cardinality(DOMAIN values) < next_idx
    /\ ~last.hit /\ ~last.gc
    /\ last.soln_idx = next_idx - 1
    /\ hits > 0

(***************************************************************************)
(* Claims about the block order                                            *)
(***************************************************************************)
\* C9: widths 3, 5, 9, 17, 33 give orders 1, 2, 3, 4, 5, and every order
\* returned for a width M satisfies 2 * 2^(order - 1) + 1 = M.
C9_OrderMatchesWidth ==
    /\ (call.fn # "none" /\ call.result.status = "returned") =>
           2 * 2 ^ (call.result.order - 1) + 1 = call.width
    /\ \A k \in 1..5 :
           (call.fn = "calculate_block_order_from_kernel_width"
              /\ call.width = 2 * 2 ^ (k - 1) + 1) => call.result = Returned(k)

\* M = 2 * 2^k + 1 for some k >= 0, M a usize
ValidWidth(width) == \E k \in 0..(UsizeBits - 2) : width = 2 * 2 ^ k + 1

\* C10: a width that is not 2 * 2^k + 1 (1, 8 and usize::MAX among them)
\* panics and returns no order; LayeredKernel::new panics on layers of
\* unequal dimensions.
C10_InvalidWidthPanics ==
    /\ (call.fn # "none" /\ ~ValidWidth(call.width)) => call.result.status = "panic"
    /\ (call.fn = "LayeredKernel::new"
          /\ \E l \in 1..Len(call.layers) : call.layers[l] # call.layers[1])
         => call.result.status = "panic"

====
